---- MODULE Spec2Model ----
(***************************************************************************)
(* License issuance and activation (src/main.py, src/manage.py).           *)
(*                                                                         *)
(* The shared state is the SQLite table `licenses`.  Every request is      *)
(* served by a worker that opens its own connection; workers stand for     *)
(* server processes and for runs of the command-line tool, which share the *)
(* database file.  One SQL statement is one atomic step.  SQLite lets one  *)
(* connection at a time hold the write lock; rows inserted inside an open  *)
(* transaction are visible to other connections only after commit.  A      *)
(* statement that needs the write lock waits until the lock is free; the   *)
(* busy timeout of the connection is not modelled.                         *)
(***************************************************************************)
EXTENDS Integers, Sequences, FiniteSets, TLC

\* ---- bounds of the model ------------------------------------------------
MaxTime == 1
\* Days that one tick of the model clock stands for.
TickDays == 2

\* ---- program constants ---------------------------------------------------
ADMIN_PASSWORD == "your_secret_password"
MinCount == 1
MaxCount == 100

\* ---- input domains --------------------------------------------------------
Workers == {"w1", "w2"}
NoWorker == "none"
Keys == {"K1", "K2"}
Hwids == {"m1", "m2"}
Passwords == {ADMIN_PASSWORD, "guess"}
Counts == {-1, 0, 1, 2, 101}
DaysInputs == {-1, 0, 7}
Notes == {"bulk"}
NULL == "NULL"

VARIABLES
    licenses,        \* committed rows of table licenses
    writer,          \* worker whose connection holds the write lock
    clock,           \* datetime.datetime.now()
    pc,              \* per worker: position in its handler
    req,             \* per worker: the request being served
    license_data,    \* per worker: dict(row) read by activate
    generated_keys,  \* per worker: keys appended by the issuance loop
    pending,         \* per worker: rows inserted but not yet committed
    result           \* per worker: the response of the finished request

vars == <<licenses, writer, clock, pc, req, license_data, generated_keys,
          pending, result>>

NoReq == [op |-> "none", key |-> NULL, hwid |-> NULL, password |-> NULL,
          count |-> 0, days |-> 0, note |-> NULL]
NoRow == [key_str |-> NULL, is_used |-> 0, hwid |-> NULL, created_at |-> NULL,
          valid_days |-> 0, activated_at |-> NULL, note |-> NULL]
NoResult == [status |-> 0, msg |-> "none", days |-> 0, keys |-> <<>>]

\* datetime.datetime.now().isoformat(): the TEXT stored in created_at and
\* activated_at.
Isoformat(t) == ToString(t)

Response(status, msg, days, keys) ==
    [status |-> status, msg |-> msg, days |-> days, keys |-> keys]

\* CREATE TABLE licenses: the defaults a row gets from the INSERT of the
\* issuance loop, which names only key_str, valid_days, created_at, note.
NewRow(key, days, now, note) ==
    [key_str |-> key, is_used |-> 0, hwid |-> NULL, created_at |-> now,
     valid_days |-> days, activated_at |-> NULL, note |-> note]

\* Mutant of PrimaryKeyFree: a table without the PRIMARY KEY constraint.
PrimaryKeyIgnored(rows, key) == TRUE

\* key_str TEXT PRIMARY KEY: an INSERT is accepted only if no row visible
\* to the connection carries the key.
PrimaryKeyFree(rows, key) == \A r \in rows : r.key_str # key

\* Mutant of SelectByKey: the WHERE clause is lost.
SelectAnyKey(key) == licenses

\* SELECT * FROM licenses WHERE key_str=?
SelectByKey(key) == {r \in licenses : r.key_str = key}

\* Mutant of IsUsed: the used flag is never honoured.
NeverUsed(row) == FALSE

\* if license_data['is_used'] == 1
IsUsed(row) == row.is_used = 1

\* Mutant of SameMachine: every machine passes for the bound one.
AnyMachine(row, hwid) == TRUE

\* if license_data['hwid'] == req.hwid
SameMachine(row, hwid) == row.hwid = hwid

\* Mutant of UpdateActivate: activated_at is not written.
UpdateActivateNoTime(rows, key, hwid, now) ==
    {IF r.key_str = key
        THEN [r EXCEPT !.is_used = 1, !.hwid = hwid]
        ELSE r : r \in rows}

\* Mutant of UpdateActivate: the requesting machine is not written.
UpdateActivateNoBind(rows, key, hwid, now) ==
    {IF r.key_str = key
        THEN [r EXCEPT !.is_used = 1, !.activated_at = now]
        ELSE r : r \in rows}

\* Mutant of UpdateActivate: the WHERE clause is lost.
UpdateActivateAll(rows, key, hwid, now) ==
    {[r EXCEPT !.is_used = 1, !.hwid = hwid, !.activated_at = now] : r \in rows}

\* Mutant of UpdateActivate: the UPDATE also stamps created_at.
UpdateActivateTouchCreated(rows, key, hwid, now) ==
    {IF r.key_str = key
        THEN [r EXCEPT !.is_used = 1, !.hwid = hwid, !.activated_at = now,
                       !.created_at = now]
        ELSE r : r \in rows}

\* UPDATE licenses SET is_used=1, hwid=?, activated_at=? WHERE key_str=?
UpdateActivate(rows, key, hwid, now) ==
    {IF r.key_str = key
        THEN [r EXCEPT !.is_used = 1, !.hwid = hwid, !.activated_at = now]
        ELSE r : r \in rows}

Init ==
    /\ licenses = {}
    /\ writer = NoWorker
    /\ clock = 0
    /\ pc = [w \in Workers |-> "idle"]
    /\ req = [w \in Workers |-> NoReq]
    /\ license_data = [w \in Workers |-> NoRow]
    /\ generated_keys = [w \in Workers |-> <<>>]
    /\ pending = [w \in Workers |-> {}]
    /\ result = [w \in Workers |-> NoResult]

\* Finish the request of worker w with response r.
Finish(w, r) ==
    /\ pc' = [pc EXCEPT ![w] = "done"]
    /\ result' = [result EXCEPT ![w] = r]

\* ---- activate (src/main.py) ----------------------------------------------
\* The validity window of a record, counted from activated_at, has passed.
\* No code of the repository computes this; it states the case of C17.
Expired(row) ==
    /\ row.valid_days > 0
    /\ row.activated_at # NULL
    /\ \E t \in 0..MaxTime :
          /\ Isoformat(t) = row.activated_at
          /\ t * TickDays + row.valid_days < clock * TickDays

\* Mutant of ActivateSelect: a repeat activation of an expired record is
\* rejected.
ActivateSelectExpiry(w, key, hwid) ==
    /\ pc[w] = "idle"
    /\ req' = [req EXCEPT ![w] = [NoReq EXCEPT !.op = "activate",
                                               !.key = key, !.hwid = hwid]]
    /\ IF SelectByKey(key) = {}
         THEN /\ Finish(w, Response(404, "KeyNotFound", 0, <<>>))
              /\ UNCHANGED license_data
         ELSE \E row \in SelectByKey(key) :
                /\ license_data' = [license_data EXCEPT ![w] = row]
                /\ IF IsUsed(row)
                     THEN IF SameMachine(row, hwid) /\ ~Expired(row)
                            THEN Finish(w, Response(200, "welcome_back",
                                                    row.valid_days, <<>>))
                            ELSE Finish(w, Response(403, "MachineMismatch",
                                                    0, <<>>))
                     ELSE /\ pc' = [pc EXCEPT ![w] = "act_update"]
                          /\ UNCHANGED result
    /\ UNCHANGED <<licenses, writer, clock, generated_keys, pending>>

\* Mutant of ActivateSelect: the rejection names the machine the key is
\* bound to.
ActivateSelectLeaky(w, key, hwid) ==
    /\ pc[w] = "idle"
    /\ req' = [req EXCEPT ![w] = [NoReq EXCEPT !.op = "activate",
                                               !.key = key, !.hwid = hwid]]
    /\ IF SelectByKey(key) = {}
         THEN /\ Finish(w, Response(404, "KeyNotFound", 0, <<>>))
              /\ UNCHANGED license_data
         ELSE \E row \in SelectByKey(key) :
                /\ license_data' = [license_data EXCEPT ![w] = row]
                /\ IF IsUsed(row)
                     THEN IF SameMachine(row, hwid)
                            THEN Finish(w, Response(200, "welcome_back",
                                                    row.valid_days, <<>>))
                            ELSE Finish(w, Response(403, row.hwid, 0, <<>>))
                     ELSE /\ pc' = [pc EXCEPT ![w] = "act_update"]
                          /\ UNCHANGED result
    /\ UNCHANGED <<licenses, writer, clock, generated_keys, pending>>

\* The request arrives and the handler runs up to the UPDATE.
ActivateSelect(w, key, hwid) ==
    /\ pc[w] = "idle"
    /\ req' = [req EXCEPT ![w] = [NoReq EXCEPT !.op = "activate",
                                               !.key = key, !.hwid = hwid]]
    /\ IF SelectByKey(key) = {}
         THEN /\ Finish(w, Response(404, "KeyNotFound", 0, <<>>))
              /\ UNCHANGED license_data
         ELSE \E row \in SelectByKey(key) :
                /\ license_data' = [license_data EXCEPT ![w] = row]
                /\ IF IsUsed(row)
                     THEN IF SameMachine(row, hwid)
                            THEN Finish(w, Response(200, "welcome_back",
                                                    row.valid_days, <<>>))
                            ELSE Finish(w, Response(403, "MachineMismatch",
                                                    0, <<>>))
                     ELSE /\ pc' = [pc EXCEPT ![w] = "act_update"]
                          /\ UNCHANGED result
    /\ UNCHANGED <<licenses, writer, clock, generated_keys, pending>>

\* UPDATE ... ; conn.commit() ; return success.
ActivateUpdate(w) ==
    /\ pc[w] = "act_update"
    /\ writer = NoWorker
    /\ licenses' = UpdateActivate(licenses, req[w].key, req[w].hwid, Isoformat(clock))
    /\ Finish(w, Response(200, "activated", license_data[w].valid_days, <<>>))
    /\ UNCHANGED <<writer, clock, req, license_data, generated_keys, pending>>

\* ---- issuance loop, shared by generate_license and generate_keys ---------
\* Mutant of InsertStep: the connection is in autocommit mode, every INSERT
\* is committed on its own.
InsertStepAutocommit(w, key) ==
    /\ Len(generated_keys[w]) < req[w].count
    /\ writer \in {NoWorker, w}
    /\ IF PrimaryKeyFree(licenses, key)
         THEN /\ licenses' = licenses \cup
                     {NewRow(key, req[w].days, Isoformat(clock), req[w].note)}
              /\ generated_keys' = [generated_keys EXCEPT ![w] = Append(@, key)]
              /\ UNCHANGED <<pc, result>>
         ELSE /\ generated_keys' = [generated_keys EXCEPT ![w] = <<>>]
              /\ Finish(w, Response(IF req[w].op = "cli" THEN 1 ELSE 500,
                                    "IntegrityError", 0, <<>>))
              /\ UNCHANGED licenses
    /\ UNCHANGED <<writer, pending, clock, req, license_data>>

\* Mutant of InsertStep: INSERT OR REPLACE, a colliding row is replaced.
InsertOrReplaceStep(w, key) ==
    /\ Len(generated_keys[w]) < req[w].count
    /\ writer \in {NoWorker, w}
    /\ licenses' = {r \in licenses : r.key_str # key}
    /\ pending' = [pending EXCEPT ![w] = {r \in @ : r.key_str # key} \cup
           {NewRow(key, req[w].days, Isoformat(clock), req[w].note)}]
    /\ generated_keys' = [generated_keys EXCEPT ![w] = Append(@, key)]
    /\ writer' = w
    /\ UNCHANGED <<pc, result, clock, req, license_data>>

\* One iteration: uuid4 draws key; the INSERT either joins the open
\* transaction or raises IntegrityError, which ends the request and rolls
\* the transaction back.
InsertStep(w, key) ==
    /\ Len(generated_keys[w]) < req[w].count
    /\ writer \in {NoWorker, w}
    /\ IF PrimaryKeyFree(licenses \cup pending[w], key)
         THEN /\ pending' = [pending EXCEPT ![w] = @ \cup
                     {NewRow(key, req[w].days, Isoformat(clock), req[w].note)}]
              /\ generated_keys' = [generated_keys EXCEPT ![w] = Append(@, key)]
              /\ writer' = w
              /\ UNCHANGED <<pc, result>>
         ELSE /\ pending' = [pending EXCEPT ![w] = {}]
              /\ generated_keys' = [generated_keys EXCEPT ![w] = <<>>]
              /\ writer' = NoWorker
              /\ Finish(w, Response(IF req[w].op = "cli" THEN 1 ELSE 500,
                                    "IntegrityError", 0, <<>>))
    /\ UNCHANGED <<licenses, clock, req, license_data>>

\* conn.commit() after the loop, then the response.
CommitStep(w) ==
    /\ Len(generated_keys[w]) >= req[w].count
    /\ licenses' = licenses \cup pending[w]
    /\ pending' = [pending EXCEPT ![w] = {}]
    /\ writer' = IF writer = w THEN NoWorker ELSE writer
    /\ Finish(w, Response(IF req[w].op = "cli" THEN 0 ELSE 200,
                          "generated", 0, generated_keys[w]))
    /\ UNCHANGED <<clock, req, license_data, generated_keys>>

\* ---- generate_license (src/main.py) --------------------------------------
\* Mutant of GenerateStart: the password is not checked.
GenerateStartNoAuth(w, password, count, days, note) ==
    /\ pc[w] = "idle"
    /\ req' = [req EXCEPT ![w] = [NoReq EXCEPT !.op = "admin",
                  !.password = password, !.count = count, !.days = days,
                  !.note = note]]
    /\ pc' = [pc EXCEPT ![w] = "gen_loop"]
    /\ UNCHANGED <<result, licenses, writer, clock, license_data,
                   generated_keys, pending>>

GenerateStart(w, password, count, days, note) ==
    /\ pc[w] = "idle"
    /\ req' = [req EXCEPT ![w] = [NoReq EXCEPT !.op = "admin",
                  !.password = password, !.count = count, !.days = days,
                  !.note = note]]
    /\ IF password # ADMIN_PASSWORD
         THEN Finish(w, Response(403, "wrong_password", 0, <<>>))
         ELSE /\ pc' = [pc EXCEPT ![w] = "gen_loop"]
              /\ UNCHANGED result
    /\ UNCHANGED <<licenses, writer, clock, license_data, generated_keys,
                   pending>>

GenerateInsert(w, key) ==
    /\ pc[w] = "gen_loop"
    /\ InsertStep(w, key)

GenerateCommit(w) ==
    /\ pc[w] = "gen_loop"
    /\ CommitStep(w)

\* ---- main / generate_keys (src/manage.py) --------------------------------
CliStart(w, count, days, note) ==
    /\ pc[w] = "idle"
    /\ req' = [req EXCEPT ![w] = [NoReq EXCEPT !.op = "cli", !.count = count,
                                               !.days = days, !.note = note]]
    /\ IF count < MinCount \/ count > MaxCount
         THEN Finish(w, Response(1, "InvalidCount", 0, <<>>))
         ELSE IF days # -1 /\ days <= 0
                THEN Finish(w, Response(1, "InvalidValidity", 0, <<>>))
                ELSE /\ pc' = [pc EXCEPT ![w] = "cli_loop"]
                     /\ UNCHANGED result
    /\ UNCHANGED <<licenses, writer, clock, license_data, generated_keys,
                   pending>>

CliInsert(w, key) ==
    /\ pc[w] = "cli_loop"
    /\ InsertStep(w, key)

CliCommit(w) ==
    /\ pc[w] = "cli_loop"
    /\ CommitStep(w)

\* ---- environment ----------------------------------------------------------
\* The response is delivered; the worker is free for the next request.
Respond(w) ==
    /\ pc[w] = "done"
    /\ pc' = [pc EXCEPT ![w] = "idle"]
    /\ req' = [req EXCEPT ![w] = NoReq]
    /\ license_data' = [license_data EXCEPT ![w] = NoRow]
    /\ generated_keys' = [generated_keys EXCEPT ![w] = <<>>]
    /\ result' = [result EXCEPT ![w] = NoResult]
    /\ UNCHANGED <<licenses, writer, clock, pending>>

Tick ==
    /\ clock < MaxTime
    /\ clock' = clock + 1
    /\ UNCHANGED <<licenses, writer, pc, req, license_data, generated_keys,
                   pending, result>>

Next ==
    \/ \E w \in Workers, key \in Keys, hwid \in Hwids : ActivateSelect(w, key, hwid)
    \/ \E w \in Workers : ActivateUpdate(w)
    \/ \E w \in Workers, password \in Passwords, count \in Counts,
          days \in DaysInputs, note \in Notes :
            GenerateStart(w, password, count, days, note)
    \/ \E w \in Workers, key \in Keys : GenerateInsert(w, key)
    \/ \E w \in Workers : GenerateCommit(w)
    \/ \E w \in Workers, count \in Counts, days \in DaysInputs, note \in Notes :
            CliStart(w, count, days, note)
    \/ \E w \in Workers, key \in Keys : CliInsert(w, key)
    \/ \E w \in Workers : CliCommit(w)
    \/ \E w \in Workers : Respond(w)
    \/ Tick

Spec == Init /\ [][Next]_vars

\* Activation scenarios: keys are issued one per request through the admin
\* handler with valid parameters; activations use every key and machine.
NextActivation ==
    \/ \E w \in Workers, key \in Keys, hwid \in Hwids : ActivateSelect(w, key, hwid)
    \/ \E w \in Workers : ActivateUpdate(w)
    \/ \E w \in Workers, days \in {-1, 7} :
            GenerateStart(w, ADMIN_PASSWORD, 1, days, "bulk")
    \/ \E w \in Workers, key \in Keys : GenerateInsert(w, key)
    \/ \E w \in Workers : GenerateCommit(w)
    \/ \E w \in Workers : Respond(w)
    \/ Tick

SpecActivation == Init /\ [][NextActivation]_vars

\* Issuance scenarios: both issuance paths with every input.  Worker w1
\* serves the admin form, the command-line tool runs as w2, so a batch of
\* either path can overlap a batch of the other; both serve activations,
\* which come from one machine.
NextIssuance ==
    \/ \E w \in Workers, key \in Keys : ActivateSelect(w, key, "m1")
    \/ \E w \in Workers : ActivateUpdate(w)
    \/ \E w \in {"w1"}, password \in Passwords, count \in Counts,
          days \in DaysInputs, note \in Notes :
            GenerateStart(w, password, count, days, note)
    \/ \E w \in Workers, key \in Keys : GenerateInsert(w, key)
    \/ \E w \in Workers : GenerateCommit(w)
    \/ \E w \in {"w2"}, count \in Counts, days \in DaysInputs, note \in Notes :
            CliStart(w, count, days, note)
    \/ \E w \in Workers, key \in Keys : CliInsert(w, key)
    \/ \E w \in Workers : CliCommit(w)
    \/ \E w \in Workers : Respond(w)
    \/ Tick

SpecIssuance == Init /\ [][NextIssuance]_vars

\* Independent activations: batches of one or two keys are issued through
\* the admin handler; key K1 is activated only from machine m1 and key K2
\* only from machine m2.
NextIndependent ==
    \/ \E w \in Workers, kh \in {<<"K1", "m1">>, <<"K2", "m2">>} :
            ActivateSelect(w, kh[1], kh[2])
    \/ \E w \in Workers : ActivateUpdate(w)
    \/ \E w \in Workers, count \in {1, 2}, days \in {-1, 7} :
            GenerateStart(w, ADMIN_PASSWORD, count, days, "bulk")
    \/ \E w \in Workers, key \in Keys : GenerateInsert(w, key)
    \/ \E w \in Workers : GenerateCommit(w)
    \/ \E w \in Workers : Respond(w)
    \/ Tick

SpecIndependent == Init /\ [][NextIndependent]_vars

\* Expiry scenarios: every key is issued with a validity of one day, which
\* is shorter than a tick of the clock.
NextExpiry ==
    \/ \E w \in Workers, key \in Keys, hwid \in Hwids : ActivateSelect(w, key, hwid)
    \/ \E w \in Workers : ActivateUpdate(w)
    \/ \E w \in Workers : GenerateStart(w, ADMIN_PASSWORD, 1, 1, "bulk")
    \/ \E w \in Workers, key \in Keys : GenerateInsert(w, key)
    \/ \E w \in Workers : GenerateCommit(w)
    \/ \E w \in Workers : Respond(w)
    \/ Tick

SpecExpiry == Init /\ [][NextExpiry]_vars


\* ==== claims ================================================================

\* C1: of two first activations of one fresh key from different machines
\* that both read the record while it was Unactivated, exactly one returns
\* success and the other returns MachineMismatch.
C1_OneWinner ==
    \A v, w \in Workers :
        (/\ v # w
         /\ pc[v] = "done" /\ pc[w] = "done"
         /\ req[v].op = "activate" /\ req[w].op = "activate"
         /\ req[v].key = req[w].key
         /\ req[v].hwid # req[w].hwid
         /\ license_data[v].key_str = req[v].key /\ license_data[v].is_used = 0
         /\ license_data[w].key_str = req[w].key /\ license_data[w].is_used = 0)
        => \/ result[v].status = 200 /\ result[w].msg = "MachineMismatch"
           \/ result[w].status = 200 /\ result[v].msg = "MachineMismatch"

\* C2: once a record is Activated, no step changes its boundMachineID or
\* its activatedAt.
C2_BindingFrozen ==
    [][\A r \in licenses :
          r.is_used = 1 =>
            \A r2 \in licenses' :
                r2.key_str = r.key_str =>
                    r2.hwid = r.hwid /\ r2.activated_at = r.activated_at]_vars

\* C3: in every state every record, committed or inside an open
\* transaction, is either Unactivated with boundMachineID and activatedAt
\* both unset, or Activated with both set.
C3_FieldsTogether ==
    \A r \in licenses \cup UNION {pending[w] : w \in Workers} :
        \/ r.is_used = 0 /\ r.hwid = NULL /\ r.activated_at = NULL
        \/ r.is_used = 1 /\ r.hwid # NULL /\ r.activated_at # NULL

C3_Witness ==
    /\ \E r \in licenses : r.is_used = 1 /\ r.hwid = "m1"
    /\ \E w \in Workers : \E r \in pending[w] : r.is_used = 0

\* C4: an Activate whose key has no record ends at once with KeyNotFound
\* (404) and the step changes neither the table nor any open transaction.
C4_UnknownKey ==
    [][\A w \in Workers :
          (/\ pc[w] = "idle"
           /\ req'[w].op = "activate"
           /\ \A r \in licenses : r.key_str # req'[w].key)
          => /\ pc'[w] = "done"
             /\ result'[w] = Response(404, "KeyNotFound", 0, <<>>)
             /\ licenses' = licenses
             /\ pending' = pending]_vars

C4_Witness ==
    \E w \in Workers :
        /\ pc[w] = "done"
        /\ req[w].op = "activate"
        /\ result[w].status = 404
        /\ licenses # {}
        /\ \A r \in licenses : r.key_str # req[w].key

C7_FirstActivation ==
    [][\A w \in Workers :
          (/\ pc[w] = "act_update"
           /\ pc'[w] = "done"
           /\ \A v \in Workers \ {w} :
                ~(pc[v] = "act_update" /\ req[v].key = req[w].key))
          => /\ result'[w].status = 200
             /\ \E r \in licenses' : r.key_str = req[w].key
             /\ \A r \in licenses' :
                  r.key_str = req[w].key
                  => /\ r.is_used = 1
                     /\ r.hwid = req[w].hwid
                     /\ r.valid_days = result'[w].days]_vars

C7_Witness ==
    \E w \in Workers :
        /\ pc[w] = "done"
        /\ req[w].op = "activate"
        /\ result[w].msg = "activated"
        /\ \A v \in Workers \ {w} : pc[v] # "act_update"
        /\ \E r \in licenses : /\ r.key_str = req[w].key
                               /\ r.is_used = 1
                               /\ r.hwid = req[w].hwid
                               /\ r.valid_days = result[w].days

\* C8: an authorised issuance request whose count lies outside [1, 100] is
\* rejected with InvalidCount before its loop starts, on the admin path and
\* on the command-line path.
C8_InvalidCount ==
    \A w \in Workers :
        (/\ req[w].op \in {"admin", "cli"}
         /\ req[w].op = "admin" => req[w].password = ADMIN_PASSWORD
         /\ (req[w].count < MinCount \/ req[w].count > MaxCount))
        => /\ pc[w] = "done"
           /\ result[w].msg = "InvalidCount"
           /\ pending[w] = {}

\* C9: every stored record has validDays equal to -1 or positive.
C9_ValidDays ==
    \A r \in licenses : r.valid_days = -1 \/ r.valid_days > 0

\* C10: no two records share a key; the keys a batch returns are pairwise
\* distinct and were in the table of no earlier state; a step never removes
\* or rewrites a record except to activate it, so an insert of an existing
\* key never resets an Activated record.
C10_UniqueKeys ==
    /\ [](\A r1, r2 \in licenses : r1.key_str = r2.key_str => r1 = r2)
    /\ [](\A w \in Workers :
            result[w].msg = "generated" =>
              \A i, j \in 1..Len(result[w].keys) :
                  result[w].keys[i] = result[w].keys[j] => i = j)
    /\ [][\A w \in Workers :
            (pc[w] \in {"gen_loop", "cli_loop"} /\ pc'[w] = "done")
            => /\ \A i \in 1..Len(result'[w].keys) :
                    \A r \in licenses : r.key_str # result'[w].keys[i]
               /\ \A r \in licenses : r \in licenses']_vars
    /\ [][\A r \in licenses :
            r.is_used = 1 =>
              \E r2 \in licenses' : r2.key_str = r.key_str /\ r2.is_used = 1]_vars

C10_Witness ==
    /\ \E r \in licenses : r.is_used = 1
    /\ \E w \in Workers : result[w].msg = "IntegrityError"
    /\ \E w \in Workers : result[w].msg = "generated" /\ Len(result[w].keys) = 2

\* C11: a duplicate key rejected by the store is recovered inside the
\* issuance loop: while iterations remain, no step of the request ends it,
\* so the batch is not aborted and IntegrityError is never the response.
C11_DuplicateRecovered ==
    [][\A w \in Workers :
          (/\ pc[w] \in {"gen_loop", "cli_loop"}
           /\ Len(generated_keys[w]) < req[w].count)
          => /\ pc'[w] = pc[w]
             /\ result'[w] = result[w]]_vars

\* C12: the commit of a successful IssueKeys(count, validDays, note) adds
\* exactly count records and keeps every existing record; the new records
\* are Unactivated, with boundMachineID and activatedAt unset, carry the
\* given validDays and note, and their keys are the returned list, which is
\* the list of generated keys in generation order.
C12_IssueEffect ==
    [][\A w \in Workers :
          (/\ pc[w] \in {"gen_loop", "cli_loop"}
           /\ pc'[w] = "done"
           /\ result'[w].msg = "generated")
          => /\ licenses \subseteq licenses'
             /\ Cardinality(licenses' \ licenses) = req[w].count
             /\ Len(result'[w].keys) = req[w].count
             /\ result'[w].keys = generated_keys[w]
             /\ {r.key_str : r \in licenses' \ licenses}
                  = {result'[w].keys[i] : i \in 1..Len(result'[w].keys)}
             /\ \A r \in licenses' \ licenses :
                  /\ r.is_used = 0
                  /\ r.hwid = NULL
                  /\ r.activated_at = NULL
                  /\ r.valid_days = req[w].days
                  /\ r.note = req[w].note]_vars

C14_Independent ==
    [][\A w \in Workers :
          /\ (/\ pc[w] = "idle"
               /\ req'[w].op = "activate"
               /\ \E r \in licenses : r.key_str = req'[w].key)
              => /\ \/ pc'[w] = "act_update"
                    \/ pc'[w] = "done" /\ result'[w].status = 200
                 /\ licenses' = licenses
          /\ (/\ pc[w] = "act_update"
               /\ pc'[w] = "done")
              => /\ result'[w].status = 200
                 /\ \A r \in licenses :
                      r.key_str # req[w].key => r \in licenses'
                 /\ \A r \in licenses' :
                      r.key_str # req[w].key => r \in licenses]_vars

C14_Witness ==
    /\ \E r \in licenses : r.key_str = "K1" /\ r.is_used = 1 /\ r.hwid = "m1"
    /\ \E r \in licenses : r.key_str = "K2" /\ r.is_used = 1 /\ r.hwid = "m2"
    /\ \E w \in Workers : /\ pc[w] = "done"
                           /\ req[w].key = "K2"
                           /\ result[w].msg = "activated"

\* C15: no step removes a record from the store, and no step takes an
\* Activated record back to Unactivated.
C15_Terminal ==
    [][\A r \in licenses :
          /\ \E r2 \in licenses' : r2.key_str = r.key_str
          /\ r.is_used = 1 =>
                \A r2 \in licenses' :
                    r2.key_str = r.key_str => r2.is_used = 1]_vars

C15_Witness ==
    /\ \E r \in licenses : r.is_used = 1 /\ r.activated_at # Isoformat(clock)
    /\ \E r \in licenses : r.is_used = 0
    /\ \E w \in Workers : /\ pc[w] = "done"
                           /\ req[w].op = "activate"
                           /\ result[w].msg = "welcome_back"

\* C16: a step of an activation adds and removes no record, keeps key,
\* createdAt, validDays and note of every record, and changes nothing at
\* all in the records of other keys.
C16_ActivateFrame ==
    [][\A w \in Workers :
          (/\ pc[w] \in {"idle", "act_update"}
           /\ pc'[w] # pc[w]
           /\ req'[w].op = "activate")
          => /\ \A r \in licenses :
                  \E r2 \in licenses' :
                      /\ r2.key_str = r.key_str
                      /\ r2.created_at = r.created_at
                      /\ r2.valid_days = r.valid_days
                      /\ r2.note = r.note
                      /\ r.key_str # req'[w].key => r2 = r
             /\ \A r2 \in licenses' :
                  \E r \in licenses : r.key_str = r2.key_str]_vars

C16_Witness ==
    /\ \E r \in licenses : /\ r.is_used = 1
                            /\ r.activated_at # r.created_at
                            /\ r.valid_days = 7
                            /\ r.note = "bulk"
    /\ \E r \in licenses : r.is_used = 0
    /\ \E w \in Workers : pc[w] = "done" /\ result[w].msg = "activated"

C18_StableSuccess ==
    [][\A v, w \in Workers :
          (/\ v # w
           /\ pc[v] = "done"
           /\ req[v].op = "activate"
           /\ result[v].status = 200
           /\ pc[w] = "idle"
           /\ req'[w].op = "activate"
           /\ req'[w].key = req[v].key
           /\ req'[w].hwid = req[v].hwid)
          => ~(pc'[w] = "done" /\ result'[w].status # 200)]_vars

\* C19: the keys a batch has generated are in no committed record while
\* the batch is in its loop; a batch that ends with a failed insert leaves
\* none of its keys in the store; an activation that starts on a key of an
\* uncommitted batch ends with KeyNotFound.
C19_BatchAtomic ==
    /\ [](\A w \in Workers :
            pc[w] \in {"gen_loop", "cli_loop"} =>
              \A i \in 1..Len(generated_keys[w]) :
                  \A r \in licenses : r.key_str # generated_keys[w][i])
    /\ [][\A w \in Workers :
            /\ (/\ pc[w] \in {"gen_loop", "cli_loop"}
                 /\ pc'[w] = "done"
                 /\ result'[w].msg # "generated")
                => /\ licenses' = licenses
                   /\ pending'[w] = {}
                   /\ \A i \in 1..Len(generated_keys[w]) :
                        \A r \in licenses' : r.key_str # generated_keys[w][i]
            /\ \A v \in Workers :
                 (/\ pc[w] \in {"gen_loop", "cli_loop"}
                  /\ pc[v] = "idle"
                  /\ req'[v].op = "activate"
                  /\ \E r \in pending[w] : r.key_str = req'[v].key)
                 => /\ pc'[v] = "done"
                    /\ result'[v].status = 404]_vars

C19_Witness ==
    \E w, v \in Workers :
        /\ pc[w] \in {"gen_loop", "cli_loop"}
        /\ req[w].count = 2
        /\ pc[v] = "done"
        /\ req[v].op = "activate"
        /\ result[v].status = 404
        /\ \E r \in pending[w] : r.key_str = req[v].key
        /\ licenses # {}

\* C20: an admin issuance request whose password is not the admin password
\* ends at once with the 403 rejection, whatever count, days and note are,
\* and leaves the table, the write lock and every open transaction as they
\* were.
C20_WrongPassword ==
    [][\A w \in Workers :
          (/\ pc[w] = "idle"
           /\ req'[w].op = "admin"
           /\ req'[w].password # ADMIN_PASSWORD)
          => /\ pc'[w] = "done"
             /\ result'[w] = Response(403, "wrong_password", 0, <<>>)
             /\ licenses' = licenses
             /\ pending' = pending
             /\ writer' = writer]_vars

C20_Witness ==
    \E w \in Workers :
        /\ pc[w] = "done"
        /\ req[w].op = "admin"
        /\ req[w].password = "guess"
        /\ req[w].count = 2
        /\ req[w].days = 7
        /\ result[w].status = 403
        /\ licenses # {}
====
